---- MODULE Spec2Model ----
(***************************************************************************)
(* BananaBrand: the request/response contract with the generative API.     *)
(*                                                                         *)
(*   src/services/geminiService.ts  constructFullPrompt, generateGraphic,  *)
(*                                  refineGraphic, extractImageFromResponse *)
(*   src/App.tsx                    the UI state (generatedImage,          *)
(*                                  isGenerating, error, config, catalogs) *)
(*                                  and handleGenerate / handleRefine      *)
(*                                                                         *)
(* JavaScript strings are TLA+ strings (\o is +, Len is .length).  A value *)
(* that may be null / undefined / absent is an optional: Null, or Some(v). *)
(***************************************************************************)
EXTENDS Integers, Sequences, FiniteSets, TLC

VARIABLES
    generatedImage,  \* App.tsx:46  GeneratedImage | null
    isGenerating,    \* App.tsx:47  boolean
    error,           \* App.tsx:48  string | null
    inflight,        \* the unsettled ai.models.generateContent calls
    config,          \* App.tsx:38  GenerationConfig
    context,         \* App.tsx:32-34,60  the option catalogs
    lastEvent,       \* history: the last step that touched the four above
    response,        \* input of extractImageFromResponse (pure-function runs)
    extracted,       \* its completion (pure-function runs)
    built            \* the prompts built from config/context (pure-function runs)

vars == <<generatedImage, isGenerating, error, config, context, inflight,
          lastEvent, response, extracted, built>>

(***************************************************************************)
(* Bounds                                                                  *)
(***************************************************************************)
\* longest content.parts list of a reply
MaxParts == 2
\* cap on the number of unsettled API calls the model tracks
MaxInFlight == 2

(***************************************************************************)
(* Optionals and strings                                                   *)
(***************************************************************************)
Null == <<>>
Some(v) == <<v>>
Get(o) == o[1]

\* JavaScript truthiness of an optional string: absent and "" are falsy
TruthyStr(o) == o # Null /\ Get(o) # ""

\* t occurs in s (String.prototype.includes)
Contains(s, t) ==
    \E i \in 1..(Len(s) - Len(t) + 1) : SubSeq(s, i, i + Len(t) - 1) = t

WhiteSpace == {" ", "\n", "\t", "\r"}

RECURSIVE TrimStart(_)
TrimStart(s) ==
    IF Len(s) > 0 /\ SubSeq(s, 1, 1) \in WhiteSpace
    THEN TrimStart(SubSeq(s, 2, Len(s)))
    ELSE s

RECURSIVE TrimEnd(_)
TrimEnd(s) ==
    IF Len(s) > 0 /\ SubSeq(s, Len(s), Len(s)) \in WhiteSpace
    THEN TrimEnd(SubSeq(s, 1, Len(s) - 1))
    ELSE s

\* String.prototype.trim
Trim(s) == TrimEnd(TrimStart(s))

\* Array.prototype.join
RECURSIVE Join(_, _)
Join(xs, sep) ==
    IF Len(xs) = 0 THEN ""
    ELSE IF Len(xs) = 1 THEN xs[1]
    ELSE xs[1] \o sep \o Join(Tail(xs), sep)

(***************************************************************************)
(* extractImageFromResponse  (geminiService.ts:110-143)                    *)
(***************************************************************************)
Ok(v) == [ok |-> TRUE, value |-> v]
Throw(n, m) == [ok |-> FALSE, name |-> n, message |-> m]

NoCandidatesMsg == "No candidates returned from API."
TextInsteadMsg == "Model returned text instead of image: "
NoImageMsg == "No image data found in response."
DefaultMime == "image/png"

\* a variant of the scan without the break: the last image part wins
RECURSIVE ScanLastImagePart(_, _)
ScanLastImagePart(parts, i) ==
    IF i > Len(parts) THEN Null
    ELSE LET later == ScanLastImagePart(parts, i + 1) IN
         IF later # Null THEN later
         ELSE IF parts[i].inlineData # Null THEN Some(parts[i])
         ELSE Null

\* for (const part of parts) { if (part.inlineData) { imagePart = part; break; } }
RECURSIVE ScanImagePart(_, _)
ScanImagePart(parts, i) ==
    IF i > Len(parts) THEN Null
    ELSE IF parts[i].inlineData # Null THEN Some(parts[i])
    ELSE ScanImagePart(parts, i + 1)

\* parts.find((p) => p.text)
RECURSIVE FindTextPart(_, _)
FindTextPart(parts, i) ==
    IF i > Len(parts) THEN Null
    ELSE IF TruthyStr(parts[i].text) THEN Some(parts[i])
    ELSE FindTextPart(parts, i + 1)

\* a variant that writes the default MIME type into every URI
ImageOfPartPngUri(imagePart) ==
    LET base64Data == Get(imagePart.inlineData).data
        declared == Get(imagePart.inlineData).mimeType
        mimeType == IF TruthyStr(declared) THEN Get(declared) ELSE DefaultMime
        imageUrl == "data:" \o DefaultMime \o ";base64," \o base64Data
    IN [imageUrl |-> imageUrl, base64Data |-> base64Data, mimeType |-> mimeType]

\* lines 134-142: the normalized result of the winning part
ImageOfPart(imagePart) ==
    LET base64Data == Get(imagePart.inlineData).data
        declared == Get(imagePart.inlineData).mimeType
        mimeType == IF TruthyStr(declared) THEN Get(declared) ELSE DefaultMime
        imageUrl == "data:" \o mimeType \o ";base64," \o base64Data
    IN [imageUrl |-> imageUrl, base64Data |-> base64Data, mimeType |-> mimeType]

extractImageFromResponse(resp) ==
    IF resp.candidates = Null \/ Len(Get(resp.candidates)) = 0
    THEN Throw("Error", NoCandidatesMsg)
    ELSE LET first == Get(resp.candidates)[1] IN
         IF first.content = Null
         THEN \* candidates[0].content.parts with content undefined
              Throw("TypeError", "Cannot read properties of undefined (reading 'parts')")
         ELSE IF Get(first.content).parts = Null
         THEN \* for (... of undefined)
              Throw("TypeError", "parts is not iterable")
         ELSE LET parts == Get(Get(first.content).parts)
                  imagePart == ScanImagePart(parts, 1)
              IN IF imagePart = Null
                 THEN LET textPart == FindTextPart(parts, 1) IN
                      IF textPart # Null
                      THEN Throw("Error", TextInsteadMsg \o Get(Get(textPart).text))
                      ELSE Throw("Error", NoImageMsg)
                 ELSE Ok(ImageOfPart(Get(imagePart)))

(***************************************************************************)
(* The replies the API can deliver (response: any): every field optional.  *)
(***************************************************************************)
InlineData(d, m) == [data |-> d, mimeType |-> m]
Part(i, t) == [inlineData |-> i, text |-> t]

RefusalText == "I cannot create this."
OtherText == "Sorry."

PartValues ==
    { Part(Some(InlineData("QUJD", Some("image/jpeg"))), Null),
      Part(Some(InlineData("eHl6", Null)), Null),
      Part(Some(InlineData("UVdF", Some(""))), Some("caption")),
      Part(Null, Some(RefusalText)),
      Part(Null, Some(OtherText)),
      Part(Null, Some("")),
      Part(Null, Null) }

PartLists == UNION { [1..n -> PartValues] : n \in 0..MaxParts }

Candidate(c) == [content |-> c]

FirstCandidates ==
    { Candidate(Null), Candidate(Some([parts |-> Null])) }
    \cup { Candidate(Some([parts |-> Some(ps)])) : ps \in PartLists }

\* what may follow the first candidate
ExtraCandidate ==
    Candidate(Some([parts |-> Some(<< Part(Some(InlineData("b3Ro", Some("image/gif"))),
                                           Some("second opinion")) >>)]))

Responses ==
    { [candidates |-> Null], [candidates |-> Some(<<>>)] }
    \cup { [candidates |-> Some(<<c>>)] : c \in FirstCandidates }
    \cup { [candidates |-> Some(<<c, ExtraCandidate>>)] : c \in FirstCandidates }

(***************************************************************************)
(* The option catalogs and the configuration (types.ts, App.tsx:32-44)     *)
(***************************************************************************)
BrandColor(i, n, cs) == [id |-> i, name |-> n, colors |-> cs]
VisualStyle(i, n, d) == [id |-> i, name |-> n, description |-> d]
GraphicType(i, n) == [id |-> i, name |-> n]

ColorBrand == BrandColor("brand", "Brand", <<"#FFD700", "#1A1A2E">>)
ColorMono == BrandColor("mono", "Mono", <<"#000000">>)
StyleFlat == VisualStyle("flat", "Flat", "flat vector shapes")
TypeIcon == GraphicType("icon", "Icon")

\* the catalogs as shipped, and after the user removed entries
BRAND_COLORS == <<ColorBrand, ColorMono>>
VISUAL_STYLES == <<StyleFlat>>
GRAPHIC_TYPES == <<TypeIcon>>
ASPECT_RATIOS == <<"1:1">>

\* the catalogs before and after the user removed the "brand" scheme, and
\* before and after the styles and types were removed
Contexts ==
    { [brandColors |-> b, visualStyles |-> st[1], graphicTypes |-> st[2]] :
        b \in {BRAND_COLORS, <<ColorMono>>},
        st \in {<<VISUAL_STYLES, GRAPHIC_TYPES>>, <<<<>>, <<>>>>} }

Configs ==
    [ prompt : {"", "a fox", "  a fox \n"},
      colorSchemeId : {"brand", "mono"},
      visualStyleId : {"flat"},
      graphicTypeId : {"icon"},
      aspectRatio : {"1:1"} ]

RefinementTexts == {"make it blue", ""}

\* Array.prototype.find(e => e.id === id)
RECURSIVE FindById(_, _, _)
FindById(xs, id, i) ==
    IF i > Len(xs) THEN Null
    ELSE IF xs[i].id = id THEN Some(xs[i])
    ELSE FindById(xs, id, i + 1)

(***************************************************************************)
(* constructFullPrompt  (geminiService.ts:18-36)                           *)
(***************************************************************************)
\* a variant with refineGraphic's fallback ('') for a missing color scheme
constructFullPromptEmptyFallback(cfg, ctx) ==
    LET colorScheme == FindById(ctx.brandColors, cfg.colorSchemeId, 1)
        style == FindById(ctx.visualStyles, cfg.visualStyleId, 1)
        type == FindById(ctx.graphicTypes, cfg.graphicTypeId, 1)
        colors == IF colorScheme # Null THEN Join(Get(colorScheme).colors, ", ")
                  ELSE ""
        styleDesc == IF style # Null THEN Get(style).description ELSE "clean style"
        typeName == IF type # Null THEN Get(type).name ELSE "image"
    IN Trim("\n    Create a " \o typeName \o ".\n"
            \o "    Visual Style: " \o styleDesc \o ".\n"
            \o "    Color Palette: Strictly use these colors: " \o colors \o ".\n"
            \o "    \n"
            \o "    Content Request: " \o cfg.prompt \o "\n"
            \o "    \n"
            \o "    Ensure the output is high quality and adheres to the style constraints.\n"
            \o "  ")

constructFullPrompt(cfg, ctx) ==
    LET colorScheme == FindById(ctx.brandColors, cfg.colorSchemeId, 1)
        style == FindById(ctx.visualStyles, cfg.visualStyleId, 1)
        type == FindById(ctx.graphicTypes, cfg.graphicTypeId, 1)
        colors == IF colorScheme # Null THEN Join(Get(colorScheme).colors, ", ")
                  ELSE "standard colors"
        styleDesc == IF style # Null THEN Get(style).description ELSE "clean style"
        typeName == IF type # Null THEN Get(type).name ELSE "image"
    IN Trim("\n    Create a " \o typeName \o ".\n"
            \o "    Visual Style: " \o styleDesc \o ".\n"
            \o "    Color Palette: Strictly use these colors: " \o colors \o ".\n"
            \o "    \n"
            \o "    Content Request: " \o cfg.prompt \o "\n"
            \o "    \n"
            \o "    Ensure the output is high quality and adheres to the style constraints.\n"
            \o "  ")

(***************************************************************************)
(* refineGraphic's prompt  (geminiService.ts:67-77)                        *)
(***************************************************************************)
fullRefinementPrompt(refinementPrompt, cfg, ctx) ==
    LET colorScheme == FindById(ctx.brandColors, cfg.colorSchemeId, 1)
        style == FindById(ctx.visualStyles, cfg.visualStyleId, 1)
        colors == IF colorScheme # Null THEN Join(Get(colorScheme).colors, ", ")
                  ELSE ""
        styleDesc == IF style # Null THEN Get(style).description ELSE ""
    IN Trim("\n    Edit this image.\n"
            \o "    Request: " \o refinementPrompt \o ".\n"
            \o "    Maintain the existing style (" \o styleDesc
            \o ") and color palette (" \o colors \o ").\n"
            \o "  ")

(***************************************************************************)
(* generateGraphic / refineGraphic  (geminiService.ts:38-107)              *)
(* Each is one ai.models.generateContent call: the request it sends, and   *)
(* what it completes with once the call has settled.                       *)
(***************************************************************************)
NANO_BANANA_MODEL == "gemini-2.5-flash-image"
GenerateFailedMsg == "Failed to generate image. Please try again."
RefineFailedMsg == "Failed to refine image. Please try again."

\* how the API call settles: it rejects, or it resolves with a response
Rejected == [fulfilled |-> FALSE]
Fulfilled(resp) == [fulfilled |-> TRUE, response |-> resp]
Settlements == {Rejected} \cup { Fulfilled(r) : r \in Responses }

generateGraphicRequest(cfg, ctx) ==
    [ model |-> NANO_BANANA_MODEL,
      parts |-> << Part(Null, Some(constructFullPrompt(cfg, ctx))) >>,
      aspectRatio |-> cfg.aspectRatio ]

refineGraphicRequest(currentImage, refinementPrompt, cfg, ctx) ==
    [ model |-> NANO_BANANA_MODEL,
      parts |-> << Part(Some(InlineData(currentImage.base64Data,
                                        Some(currentImage.mimeType))), Null),
                   Part(Null, Some(fullRefinementPrompt(refinementPrompt, cfg, ctx))) >>,
      aspectRatio |-> cfg.aspectRatio ]

\* try { response = await ...; return extractImageFromResponse(response) }
\* catch (error) { throw new Error("Failed to generate image. ...") }
generateGraphic(s) ==
    IF ~s.fulfilled THEN Throw("Error", GenerateFailedMsg)
    ELSE LET r == extractImageFromResponse(s.response) IN
         IF r.ok THEN r ELSE Throw("Error", GenerateFailedMsg)

refineGraphic(s) ==
    IF ~s.fulfilled THEN Throw("Error", RefineFailedMsg)
    ELSE LET r == extractImageFromResponse(s.response) IN
         IF r.ok THEN r ELSE Throw("Error", RefineFailedMsg)

(***************************************************************************)
(* What a settlement is, read off the reply alone (kept in lastEvent so    *)
(* that the properties below can speak about the reply a request got).     *)
(***************************************************************************)
\* the content segments of the first candidate (none when it has no list)
Segments(resp) ==
    LET first == Get(resp.candidates)[1] IN
    IF first.content = Null \/ Get(first.content).parts = Null THEN <<>>
    ELSE Get(Get(first.content).parts)

HasCandidates(resp) == resp.candidates # Null /\ Get(resp.candidates) # <<>>
HasSegmentList(resp) ==
    LET first == Get(resp.candidates)[1] IN
    first.content # Null /\ Get(first.content).parts # Null
ImageAt(resp) == { i \in DOMAIN Segments(resp) : Segments(resp)[i].inlineData # Null }
TextAt(resp) ==
    { i \in DOMAIN Segments(resp) :
        Segments(resp)[i].text # Null /\ Get(Segments(resp)[i].text) # "" }
Least(S) == CHOOSE i \in S : \A j \in S : i <= j

Digest(s) ==
    IF ~s.fulfilled
    THEN [kind |-> "TransportFailure", text |-> Null, image |-> Null, listed |-> TRUE]
    ELSE IF ~HasCandidates(s.response)
    THEN [kind |-> "EmptyResponse", text |-> Null, image |-> Null, listed |-> TRUE]
    ELSE IF ImageAt(s.response) # {}
    THEN [kind |-> "Image", text |-> Null,
          image |-> Segments(s.response)[Least(ImageAt(s.response))].inlineData,
          listed |-> TRUE]
    ELSE IF TextAt(s.response) # {}
    THEN [kind |-> "ModelRefused",
          text |-> Segments(s.response)[Least(TextAt(s.response))].text,
          image |-> Null, listed |-> TRUE]
    ELSE [kind |-> "NoImageData", text |-> Null, image |-> Null,
          listed |-> HasSegmentList(s.response)]

(***************************************************************************)
(* The UI  (App.tsx)                                                       *)
(***************************************************************************)
UnexpectedMsg == "An unexpected error occurred."
RefineFallbackMsg == "Failed to refine image."

\* err.message || fallback
MessageOr(message, fallback) == IF message = "" THEN fallback ELSE message

\* ControlPanel's generate control and ImageDisplay's refine control are
\* disabled while isGenerating / isRefining is set (App.tsx:125, 148)
GenerateEnabled == ~isGenerating
RefineEnabled == ~isGenerating

PureIdle == UNCHANGED <<response, extracted, built>>

\* a variant of handleGenerate that does not raise the in-progress flag
handleGenerateNoFlag ==
    /\ Len(inflight) < MaxInFlight
    /\ error' = Null
    /\ inflight' = Append(inflight,
          [op |-> "generate", request |-> generateGraphicRequest(config, context),
           imageAtIssue |-> generatedImage])
    /\ lastEvent' = [type |-> "handleGenerate"]
    /\ UNCHANGED <<isGenerating, generatedImage, config, context>>
    /\ PureIdle

\* App.tsx:62-66, up to the await
handleGenerate ==
    /\ Len(inflight) < MaxInFlight
    /\ isGenerating' = TRUE
    /\ error' = Null
    /\ inflight' = Append(inflight,
          [op |-> "generate", request |-> generateGraphicRequest(config, context),
           imageAtIssue |-> generatedImage])
    /\ lastEvent' = [type |-> "handleGenerate"]
    /\ UNCHANGED <<generatedImage, config, context>>
    /\ PureIdle

\* a variant of handleRefine without the early return
handleRefineUnguarded(refinementText) ==
    /\ Len(inflight) < MaxInFlight
    /\ isGenerating' = TRUE
    /\ error' = Null
    /\ IF generatedImage = Null
       THEN /\ inflight' = inflight
            /\ lastEvent' = [type |-> "handleRefine", issued |-> FALSE,
                             before |-> <<generatedImage, isGenerating, error, inflight>>]
       ELSE /\ inflight' = Append(inflight,
                  [op |-> "refine",
                   request |-> refineGraphicRequest(Get(generatedImage), refinementText,
                                                    config, context),
                   imageAtIssue |-> generatedImage])
            /\ lastEvent' = [type |-> "handleRefine", issued |-> TRUE]
    /\ UNCHANGED <<generatedImage, config, context>>
    /\ PureIdle

\* App.tsx:75-81, up to the await
handleRefine(refinementText) ==
    /\ Len(inflight) < MaxInFlight
    /\ IF generatedImage = Null
       THEN /\ lastEvent' = [type |-> "handleRefine", issued |-> FALSE,
                             before |-> <<generatedImage, isGenerating, error, inflight>>]
            /\ UNCHANGED <<isGenerating, error, inflight>>
       ELSE /\ isGenerating' = TRUE
            /\ error' = Null
            /\ inflight' = Append(inflight,
                  [op |-> "refine",
                   request |-> refineGraphicRequest(Get(generatedImage), refinementText,
                                                    config, context),
                   imageAtIssue |-> generatedImage])
            /\ lastEvent' = [type |-> "handleRefine", issued |-> TRUE]
    /\ UNCHANGED <<generatedImage, config, context>>
    /\ PureIdle

Without(q, i) == SubSeq(q, 1, i - 1) \o SubSeq(q, i + 1, Len(q))

SettledEvent(call, s) ==
    [type |-> "settled", op |-> call.op, reply |-> Digest(s),
     imageBefore |-> generatedImage, imageAtIssue |-> call.imageAtIssue]

\* variants of the try / catch / finally after the await
AfterAwaitClearsImage(outcome, fallback) ==
    /\ IF outcome.ok
       THEN generatedImage' = Some(outcome.value) /\ error' = error
       ELSE generatedImage' = Null /\ error' = Some(MessageOr(outcome.message, fallback))
    /\ isGenerating' = FALSE

AfterAwaitNoFinally(outcome, fallback) ==
    /\ IF outcome.ok
       THEN generatedImage' = Some(outcome.value) /\ error' = error
                /\ isGenerating' = FALSE
       ELSE generatedImage' = generatedImage
                /\ error' = Some(MessageOr(outcome.message, fallback))
                /\ isGenerating' = isGenerating

\* App.tsx:66-72 and 81-87: setGeneratedImage(result) / catch setError / finally
AfterAwait(outcome, fallback) ==
    /\ IF outcome.ok
       THEN generatedImage' = Some(outcome.value) /\ error' = error
       ELSE generatedImage' = generatedImage
                /\ error' = Some(MessageOr(outcome.message, fallback))
    /\ isGenerating' = FALSE

\* the i-th call settles with s and its handler runs to the end
handleGenerateSettled(i, s) ==
    /\ inflight[i].op = "generate"
    /\ AfterAwait(generateGraphic(s), UnexpectedMsg)
    /\ inflight' = Without(inflight, i)
    /\ lastEvent' = SettledEvent(inflight[i], s)
    /\ UNCHANGED <<config, context>>
    /\ PureIdle

handleRefineSettled(i, s) ==
    /\ inflight[i].op = "refine"
    /\ AfterAwait(refineGraphic(s), RefineFallbackMsg)
    /\ inflight' = Without(inflight, i)
    /\ lastEvent' = SettledEvent(inflight[i], s)
    /\ UNCHANGED <<config, context>>
    /\ PureIdle

\* App.tsx:138  the error toast's dismiss button
dismissError ==
    /\ error # Null
    /\ error' = Null
    /\ lastEvent' = [type |-> "dismissError"]
    /\ UNCHANGED <<generatedImage, isGenerating, config, context, inflight>>
    /\ PureIdle

\* App.tsx:123  setConfig, handed to ControlPanel
setConfig(c) ==
    /\ c # config
    /\ config' = c
    /\ UNCHANGED <<generatedImage, isGenerating, error, context, inflight, lastEvent>>
    /\ PureIdle

\* App.tsx:127  setBrandColors / setVisualStyles / setGraphicTypes
setOptions(x) ==
    /\ x # context
    /\ context' = x
    /\ UNCHANGED <<generatedImage, isGenerating, error, config, inflight, lastEvent>>
    /\ PureIdle

ClickGenerate == GenerateEnabled /\ handleGenerate
SubmitRefine == RefineEnabled /\ \E t \in RefinementTexts : handleRefine(t)
Settle ==
    \E i \in DOMAIN inflight, s \in Settlements :
        handleGenerateSettled(i, s) \/ handleRefineSettled(i, s)
ChangeConfig == \E c \in Configs : setConfig(c)
ChangeOptions == \E x \in Contexts : setOptions(x)

\* App.tsx:38-44
InitialConfig ==
    [prompt |-> "", colorSchemeId |-> BRAND_COLORS[1].id,
     visualStyleId |-> VISUAL_STYLES[1].id,
     graphicTypeId |-> GRAPHIC_TYPES[1].id,
     aspectRatio |-> ASPECT_RATIOS[1]]

\* App.tsx:32-34, 60
InitialContext ==
    [brandColors |-> BRAND_COLORS, visualStyles |-> VISUAL_STYLES,
     graphicTypes |-> GRAPHIC_TYPES]

\* App.tsx:46-48
UIInit ==
    /\ generatedImage = Null
    /\ isGenerating = FALSE
    /\ error = Null
    /\ inflight = <<>>
    /\ lastEvent = [type |-> "init"]

Init ==
    /\ UIInit
    /\ config = InitialConfig
    /\ context = InitialContext
    /\ response = Null
    /\ extracted = Null
    /\ built = Null

Next ==
    \/ ClickGenerate
    \/ SubmitRefine
    \/ Settle
    \/ dismissError
    \/ ChangeConfig
    \/ ChangeOptions

Spec == Init /\ [][Next]_vars

\* the API call settles and the event loop runs the handler's continuation
FairSpec == Spec /\ WF_vars(Settle)

(***************************************************************************)
(* The pure functions on their own: the extractor applied to every reply,  *)
(* and the two prompts built from every configuration and catalog state.   *)
(***************************************************************************)
UIIdle == UNCHANGED <<generatedImage, isGenerating, error, inflight, lastEvent>>

ExtractInit ==
    /\ UIInit
    /\ config = InitialConfig
    /\ context = InitialContext
    /\ response \in Responses
    /\ extracted = Null
    /\ built = Null

Extract ==
    /\ extracted = Null
    /\ extracted' = Some(extractImageFromResponse(response))
    /\ UNCHANGED <<response, built, config, context>>
    /\ UIIdle

ExtractSpec == ExtractInit /\ [][Extract]_vars

NoPrompts == [generation |-> Null, refinement |-> Null]

PromptInit ==
    /\ UIInit
    /\ config \in Configs
    /\ context \in Contexts
    /\ response = Null
    /\ extracted = Null
    /\ built = NoPrompts

BuildGeneration ==
    /\ built.generation = Null
    /\ built' = [built EXCEPT !.generation = Some(constructFullPrompt(config, context))]
    /\ UNCHANGED <<response, extracted, config, context>>
    /\ UIIdle

BuildRefinement ==
    /\ built.refinement = Null
    /\ \E t \in RefinementTexts :
          built' = [built EXCEPT !.refinement = Some(fullRefinementPrompt(t, config, context))]
    /\ UNCHANGED <<response, extracted, config, context>>
    /\ UIIdle

PromptNext == BuildGeneration \/ BuildRefinement

PromptSpec == PromptInit /\ [][PromptNext]_vars

(***************************************************************************)
(* Properties                                                              *)
(***************************************************************************)
Settled == lastEvent.type = "settled"
Failed == Settled /\ lastEvent.reply.kind # "Image"
DeclaredOrDefault(inline) ==
    IF inline.mimeType # Null /\ Get(inline.mimeType) # ""
    THEN Get(inline.mimeType) ELSE "image/png"

\* C1: when the reply of a generate or refine request has candidates, no
\* inline-image segment in the first candidate and a text segment with text T,
\* the request fails and the message stored in the UI's error state includes T.
C1_RefusalTextReachesUI ==
    (Settled /\ lastEvent.reply.kind = "ModelRefused") =>
        /\ error # Null
        /\ Contains(Get(error), Get(lastEvent.reply.text))

\* the message the UI shows after a transport failure of the given operation
TransportMessage(op) ==
    IF op = "generate" THEN MessageOr(generateGraphic(Rejected).message, UnexpectedMsg)
    ELSE MessageOr(refineGraphic(Rejected).message, RefineFallbackMsg)

\* C2: the message delivered for EmptyResponse, ModelRefused or NoImageData
\* differs from the message the same operation delivers for a transport failure.
C2_TransportMessageDistinct ==
    (Settled /\ lastEvent.reply.kind \in {"EmptyResponse", "ModelRefused", "NoImageData"}) =>
        error # Some(TransportMessage(lastEvent.op))

\* C3: at most one request to the API is in flight, and while one is in flight
\* the in-progress flag that disables the request controls is set.
C3_AtMostOneInFlight ==
    /\ Len(inflight) <= 1
    /\ inflight # <<>> => isGenerating
    /\ isGenerating => ~(ENABLED ClickGenerate) /\ ~(ENABLED SubmitRefine)

C3_Witness ==
    /\ Len(inflight) = 1
    /\ isGenerating
    /\ inflight[1].op = "refine"

\* C4: a request that fails leaves the current image as it was before the
\* request was issued, and the image changes only in a step that settles a
\* request with success.
C4_FailureKeepsImage ==
    /\ [](Failed => /\ generatedImage = lastEvent.imageBefore
                    /\ generatedImage = lastEvent.imageAtIssue)
    /\ [][generatedImage' # generatedImage =>
             (lastEvent'.type = "settled" /\ lastEvent'.reply.kind = "Image")]_vars

C4_Witness ==
    /\ Failed
    /\ lastEvent.reply.kind = "ModelRefused"
    /\ generatedImage # Null
    /\ error # Null

\* C5: for a reply whose first candidate has an inline-image segment, the
\* extractor returns the payload and MIME type of the first such segment in
\* segment order, and does not fail.
C5_FirstImageWins ==
    (extracted # Null /\ HasCandidates(response) /\ ImageAt(response) # {}) =>
        LET seg == Segments(response)[Least(ImageAt(response))]
            r == Get(extracted)
        IN /\ r.ok
           /\ r.value.base64Data = Get(seg.inlineData).data
           /\ r.value.mimeType = DeclaredOrDefault(Get(seg.inlineData))

C5_Witness ==
    /\ extracted # Null
    /\ HasCandidates(response)
    /\ Cardinality(ImageAt(response)) = 2
    /\ Get(extracted).ok
    /\ Get(extracted).value.base64Data = "eHl6"

\* the diagnosis a thrown error carries
DiagnosisOf(r) ==
    IF r.name = "Error" /\ r.message = NoCandidatesMsg THEN "EmptyResponse"
    ELSE IF r.name = "Error" /\ Len(r.message) >= Len(TextInsteadMsg)
            /\ SubSeq(r.message, 1, Len(TextInsteadMsg)) = TextInsteadMsg
         THEN "ModelRefused"
    ELSE IF r.name = "Error" /\ r.message = NoImageMsg THEN "NoImageData"
    ELSE "none"

\* C6: for a reply without an image segment the extractor fails with
\* EmptyResponse when there are no candidates, with ModelRefused carrying the
\* text when the first candidate has a text segment, and with NoImageData when
\* it has neither an image segment nor a text segment.
C6_OneDiagnosis ==
    (extracted # Null /\ Digest(Fulfilled(response)).kind # "Image") =>
        LET d == Digest(Fulfilled(response))
            r == Get(extracted)
        IN /\ ~r.ok
           /\ DiagnosisOf(r) = d.kind
           /\ d.kind = "ModelRefused" => r.message = TextInsteadMsg \o Get(d.text)

\* the same, for the replies whose first candidate has a segment list
C6_OneDiagnosisOfListedReplies ==
    (extracted # Null /\ Digest(Fulfilled(response)).listed) => C6_OneDiagnosis

\* C7: the image held by the UI has displayUri = "data:" + mimeType +
\* ";base64," + rawEncodedData, with the MIME type the winning segment
\* declared, or "image/png" when it declared none.
C7_DisplayUri ==
    generatedImage # Null =>
        LET img == Get(generatedImage) IN
        /\ img.imageUrl = "data:" \o img.mimeType \o ";base64," \o img.base64Data
        /\ (Settled /\ lastEvent.reply.kind = "Image") =>
              /\ img.base64Data = Get(lastEvent.reply.image).data
              /\ img.mimeType = DeclaredOrDefault(Get(lastEvent.reply.image))

C7_Witness ==
    /\ generatedImage # Null
    /\ Settled /\ lastEvent.reply.kind = "Image" /\ lastEvent.op = "refine"
    /\ Get(lastEvent.reply.image).mimeType = Null
    /\ Get(generatedImage).imageUrl = "data:image/png;base64,eHl6"

\* the catalog entries whose id is the selected color scheme
Matching == { i \in DOMAIN context.brandColors :
                context.brandColors[i].id = config.colorSchemeId }
\* c1, c2, ..., cn
RECURSIVE CommaList(_)
CommaList(cs) ==
    IF cs = <<>> THEN ""
    ELSE IF Len(cs) = 1 THEN cs[1]
    ELSE CommaList(SubSeq(cs, 1, Len(cs) - 1)) \o ", " \o cs[Len(cs)]
MatchedColors == CommaList(context.brandColors[Least(Matching)].colors)

\* C8: with no catalog entry for colorSchemeId the generation prompt has
\* "standard colors" where the color list goes and the refinement prompt has
\* the empty string there; with an entry, both have its colors joined by ", ".
C8_ColorFallbacks ==
    /\ built.generation # Null =>
          Contains(Get(built.generation),
                   "Color Palette: Strictly use these colors: "
                   \o (IF Matching = {} THEN "standard colors" ELSE MatchedColors)
                   \o ".\n")
    /\ built.refinement # Null =>
          Contains(Get(built.refinement),
                   "and color palette ("
                   \o (IF Matching = {} THEN "" ELSE MatchedColors)
                   \o ").")

C8_Witness ==
    /\ built.generation # Null
    /\ built.refinement # Null
    /\ Matching = {}
    /\ Contains(Get(built.generation), "standard colors")
    /\ ~Contains(Get(built.refinement), "standard colors")

\* C9: a request that settles, with success or with an error, leaves the
\* in-progress flag false; the flag is true once a request is issued; and a
\* set flag is eventually cleared, given that the API call settles.
C9_FlagCleared ==
    /\ [](Settled => ~isGenerating)
    /\ []((lastEvent.type = "handleGenerate"
            \/ (lastEvent.type = "handleRefine" /\ lastEvent.issued)) => isGenerating)
    /\ (isGenerating ~> ~isGenerating)

C9_Witness ==
    /\ Settled
    /\ lastEvent.reply.kind = "TransportFailure"
    /\ ~isGenerating
    /\ inflight = <<>>

\* C10: a refine action taken while no image is held issues no request and
\* leaves the image, the in-progress flag and the error as they were.
C10_RefineWithoutImage ==
    /\ (lastEvent.type = "handleRefine" /\ ~lastEvent.issued) =>
          /\ <<generatedImage, isGenerating, error, inflight>> = lastEvent.before
          /\ generatedImage = Null
    /\ (lastEvent.type = "handleRefine" /\ lastEvent.issued) => generatedImage # Null

C10_Witness ==
    /\ lastEvent.type = "handleRefine"
    /\ ~lastEvent.issued
    /\ error # Null
    /\ inflight = <<>>

====
